---- MODULE Spec2Model ----
(***************************************************************************)
(* A model of HCDevice (src/HCDevice.py): the client side of the Home      *)
(* Connect websocket protocol.  The object's fields are the state; get(),  *)
(* recv(), reconnect() and handle_message() are the actions; test_feature, *)
(* test_program_data are pure operators over the feature catalog.          *)
(*                                                                         *)
(* Python values are modelled as follows.                                  *)
(*   - a dict is a record whose DOMAIN is the set of keys present;         *)
(*   - a list is a sequence;                                               *)
(*   - a str made of digits is the sequence of its digits (so that str()   *)
(*     and int() are real conversions); a resource path is the sequence of *)
(*     its tokens, "/" being a token of its own; a dotted feature name is  *)
(*     the sequence of its segments;                                       *)
(*   - a value whose type matters (isinstance(x, int)) is a tagged record  *)
(*     [t, i, s];                                                          *)
(*   - None is the number None (ids on the wire are naturals).             *)
(***************************************************************************)
EXTENDS Integers, Sequences, FiniteSets, TLC

VARIABLES
    features,              \* self.features: the catalog, keyed by str(uid)
    session_id,            \* self.session_id
    tx_msg_id,             \* self.tx_msg_id
    services_initialized,  \* self.services_initialized
    services,              \* self.services: service name -> [version]
    token,                 \* self.token
    pc,                    \* where the caller is: "idle" between two calls, at a
                           \* point of reconnect(), or "returned" from a call
    step,                  \* index of the next post-discovery request of reconnect()
    loops,                 \* recv() calls made so far by the loop of reconnect()
    sent,                  \* envelopes handed to ws.send by the current/latest public call
    last,                  \* the latest call of get()/recv()/test_feature and its inputs
    ret,                   \* how that call ended
    epoch,                 \* history: the edMsgID the latest /ei/initialValues POST
                           \* set the counter to, and the msgIDs of the envelopes
                           \* get() has sent since
    run                    \* history of the running reconnect(): whether the object
                           \* was as __init__ left it when it began, whether its
                           \* first recv() dispatched the /ei/initialValues POST,
                           \* whether a recv() of it got a /ci/services response

vars == <<features, session_id, tx_msg_id, services_initialized, services,
          token, pc, step, loops, sent, last, ret, epoch, run>>

session == <<session_id, tx_msg_id, services_initialized, services, token>>

-----------------------------------------------------------------------------
(* Bounds of the model *)

\* get() is not called once the counter has reached this value
MaxMsgId == 8
\* recv() calls the loop of reconnect() may make
MaxLoops == 2
\* records in one batch handed to test_feature
MaxBatch == 2

-----------------------------------------------------------------------------
(* Python values *)

None == -1

NoFields == [k \in {} |-> 0]

PyInt(n) == [t |-> "int", i |-> n, s |-> <<>>]
PyStr(digits) == [t |-> "str", i |-> 0, s |-> digits]

\* isinstance(x, int)
IsInt(x) == x.t = "int"

\* str(n) of a natural: its decimal digits
RECURSIVE StrNat(_)
StrNat(n) == IF n < 10 THEN <<n>> ELSE StrNat(n \div 10) \o <<n % 10>>

\* str(x): of an int its decimal form, of a str the str itself
Str(x) == IF IsInt(x) THEN StrNat(x.i) ELSE x.s

\* int(s) of a string of digits
RECURSIVE IntOf(_)
IntOf(s) == IF Len(s) = 0 THEN 0
            ELSE 10 * IntOf(SubSeq(s, 1, Len(s) - 1)) + s[Len(s)]

\* s.lower(), on the access levels a catalog holds
Lower(s) == CASE s = "readWrite" -> "readwrite"
              [] s = "WRITEONLY" -> "writeonly"
              [] s = "writeOnly" -> "writeonly"
              [] s = "READ" -> "read"
              [] OTHER -> s

-----------------------------------------------------------------------------
(* The write validator *)

\* one iteration of the loop of test_feature: TRUE when it raises nothing
test_feature_record_no_int_check(feats, data) ==
    /\ "uid" \in DOMAIN data
    /\ IsInt(data.uid)
    /\ "value" \in DOMAIN data
    /\ Str(data.uid) \in DOMAIN feats
    /\ LET feature == feats[Str(data.uid)] IN
        /\ "access" \in DOMAIN feature
        /\ Lower(feature.access) \in {"readwrite", "writeonly"}
        /\ ("values" \in DOMAIN feature =>
                Str(data.value) \in DOMAIN feature.values)
        /\ ("min" \in DOMAIN feature =>
                /\ "max" \in DOMAIN feature
                /\ IsInt(data.value)
                /\ ~(data.value.i < IntOf(feature.min))
                /\ ~(data.value.i > IntOf(feature.max)))

test_feature_record(feats, data) ==
    /\ "uid" \in DOMAIN data
    /\ IsInt(data.uid)
    /\ "value" \in DOMAIN data
    /\ Str(data.uid) \in DOMAIN feats
    /\ LET feature == feats[Str(data.uid)] IN
        /\ "access" \in DOMAIN feature
        /\ Lower(feature.access) \in {"readwrite", "writeonly"}
        /\ ("values" \in DOMAIN feature =>
                /\ IsInt(data.value)
                /\ Str(data.value) \in DOMAIN feature.values)
        /\ ("min" \in DOMAIN feature =>
                /\ "max" \in DOMAIN feature
                /\ IsInt(data.value)
                /\ ~(data.value.i < IntOf(feature.min))
                /\ ~(data.value.i > IntOf(feature.max)))

\* test_feature(data_array): TRUE when it returns, FALSE when it raises
RECURSIVE test_feature(_, _)
test_feature(feats, data_array) ==
    IF data_array = <<>> THEN TRUE
    ELSE IF ~test_feature_record(feats, Head(data_array)) THEN FALSE
    ELSE test_feature(feats, Tail(data_array))

\* ".Program." in name, the name being its dotted segments: some segment
\* with a dot on both sides is "Program"
HasProgramMarker(name) ==
    \E k \in 2..(Len(name) - 1) : name[k] = "Program"

\* one iteration of the loop of test_program_data: TRUE when it raises nothing
test_program_data_record_any_feature(feats, data) ==
    /\ "program" \in DOMAIN data
    /\ IsInt(data.program)
    /\ Str(data.program) \in DOMAIN feats
    /\ ("options" \in DOMAIN data =>
            \A k \in 1..Len(data.options) :
                /\ "uid" \in DOMAIN data.options[k]
                /\ Str(data.options[k].uid) \in DOMAIN feats)

test_program_data_record(feats, data) ==
    /\ "program" \in DOMAIN data
    /\ IsInt(data.program)
    /\ Str(data.program) \in DOMAIN feats
    /\ HasProgramMarker(feats[Str(data.program)].name)
    /\ ("options" \in DOMAIN data =>
            \A k \in 1..Len(data.options) :
                /\ "uid" \in DOMAIN data.options[k]
                /\ Str(data.options[k].uid) \in DOMAIN feats)

\* test_program_data(data_array): TRUE when it returns, FALSE when it raises
RECURSIVE test_program_data(_, _)
test_program_data(feats, data_array) ==
    IF data_array = <<>> THEN TRUE
    ELSE IF ~test_program_data_record(feats, Head(data_array)) THEN FALSE
    ELSE test_program_data(feats, Tail(data_array))

-----------------------------------------------------------------------------
(* The value normalizer *)

PyLabel(l) == [t |-> "label", i |-> 0, s |-> <<>>, l |-> l]

\* a key of the dict parse_values returns: a trimmed feature name, or str(uid);
\* t is the Python type of the key
NameKey(n) == [k |-> "name", n |-> n, u |-> <<>>, t |-> "str"]
UidKey(u) == [k |-> "uid", n |-> "", u |-> u, t |-> "str"]

\* re.sub(r"^.*\.", "", name): the last dotted segment
TrimName(name) == name[Len(name)]

\* the key and the value one record of parse_values contributes
ParsedKey(feats, msg) ==
    LET uid == Str(msg.uid) IN
    IF uid \in DOMAIN feats THEN NameKey(TrimName(feats[uid].name))
    ELSE UidKey(uid)

ParsedValueNeverLabel(feats, msg) == msg.value

ParsedValue(feats, msg) ==
    LET uid == Str(msg.uid)
        value_str == Str(msg.value) IN
    IF /\ uid \in DOMAIN feats
       /\ "values" \in DOMAIN feats[uid]
       /\ value_str \in DOMAIN feats[uid].values
    THEN PyLabel(feats[uid].values[value_str])
    ELSE msg.value

\* parse_values raises KeyError on a record without uid or value
ParseRaises(values) ==
    \E k \in 1..Len(values) :
        "uid" \notin DOMAIN values[k] \/ "value" \notin DOMAIN values[k]

\* the dict built by the loop of parse_values: a later record overwrites an
\* earlier one with the same key
RECURSIVE ParseLoop(_, _, _)
ParseLoop(feats, values, result) ==
    IF values = <<>> THEN result
    ELSE LET msg == Head(values)
             key == ParsedKey(feats, msg)
             rest == [x \in DOMAIN result \ {key} |-> result[x]] IN
         ParseLoop(feats, Tail(values),
                   (key :> ParsedValue(feats, msg)) @@ rest)

\* parse_values(values): the records themselves when there is no catalog
parse_values(feats, values) ==
    IF DOMAIN feats = {} THEN [t |-> "list", items |-> values]
    ELSE [t |-> "parsed", items |-> ParseLoop(feats, values, NoFields)]

-----------------------------------------------------------------------------
(* Resources and envelopes *)

Path(a, b) == <<"/", a, "/", b>>

EiInitialValues == Path("ei", "initialValues")
EiDeviceReady == Path("ei", "deviceReady")
CiServices == Path("ci", "services")
CiAuthentication == Path("ci", "authentication")
CiInfo == Path("ci", "info")
CiRegisteredDevices == Path("ci", "registeredDevices")
CiTzInfo == Path("ci", "tzInfo")
IzInfo == Path("iz", "info")
NiInfo == Path("ni", "info")
NiConfig == Path("ni", "config")
RoValues == Path("ro", "values")
RoAllMandatoryValues == Path("ro", "allMandatoryValues")
RoActiveProgram == Path("ro", "activeProgram")
RoDescriptionChange == Path("ro", "descriptionChange")
RoAllDescriptionChanges == Path("ro", "allDescriptionChanges")

\* resource.split("/"): the segments between the "/" tokens
RECURSIVE SplitFrom(_, _)
SplitFrom(tokens, parts) ==
    IF tokens = <<>> THEN parts
    ELSE IF Head(tokens) = "/" THEN SplitFrom(Tail(tokens), Append(parts, ""))
    ELSE SplitFrom(Tail(tokens),
                   [parts EXCEPT ![Len(parts)] = Head(tokens)])

Split(resource) == SplitFrom(resource, <<"">>)

\* the data argument of get(): None, one dict, or a list of dicts
NoData == [kind |-> "none"]
OneDict(rec) == [kind |-> "dict", recs |-> <<rec>>]
DataList(recs) == [kind |-> "list", recs |-> recs]

-----------------------------------------------------------------------------
(* get() *)

\* the version get() puts in the envelope (lines 231-238)
GetVersionIgnoringTable(resource, version) == version

GetVersion(resource, version) ==
    IF services_initialized
    THEN LET resource_parts == Split(resource) IN
         IF Len(resource_parts) > 1
         THEN LET service == resource_parts[2] IN
              IF service \in DOMAIN services
              THEN services[service].version
              ELSE version
         ELSE version
    ELSE version

\* whether the payload check of get() raises (lines 248-258)
GetValidationSkipped(resource, action, data) == FALSE

GetValidationRaises(resource, action, data) ==
    /\ data.kind # "none"
    /\ action = "POST"
    /\ \/ resource = RoValues /\ ~test_feature(features, data.recs)
       \/ resource = RoActiveProgram /\ ~test_program_data(features, data.recs)

\* the envelope get() builds (lines 240-260)
GetMsg(resource, version, action, data) ==
    LET msg == [sID |-> session_id,
                msgID |-> tx_msg_id,
                resource |-> resource,
                version |-> GetVersion(resource, version),
                action |-> action] IN
    IF data.kind = "none" THEN msg ELSE msg @@ [data |-> data.recs]

\* self.tx_msg_id += 1 (line 266)
NextMsgIdStuck(id) == id

NextMsgId(id) == id + 1

\* get(resource, version, action, data), ws.send raising or not: the part of
\* the step that is get()'s own; log holds the envelopes the public call has
\* handed to ws.send so far
get_send_failure_raises(resource, version, action, data, send_raises, within, log) ==
    LET invalid == GetValidationRaises(resource, action, data)
        msg == GetMsg(resource, version, action, data)
        raised == invalid \/ tx_msg_id = None \/ send_raises IN
    /\ tx_msg_id = None \/ tx_msg_id < MaxMsgId
    /\ sent' = IF invalid THEN log ELSE Append(log, msg)
    /\ tx_msg_id' = IF raised THEN tx_msg_id ELSE NextMsgId(tx_msg_id)
    /\ epoch' = IF invalid \/ epoch.start = None THEN epoch
                 ELSE [epoch EXCEPT !.ids = Append(@, msg.msgID)]
    /\ last' = [op |-> "get", within |-> within, resource |-> resource,
                version |-> version, action |-> action, data |-> data,
                send_raises |-> send_raises /\ ~invalid]
    /\ ret' = [of |-> "get", kind |-> IF raised THEN "raised" ELSE "returned"]
    /\ UNCHANGED <<features, session_id, services_initialized, services>>

get(resource, version, action, data, send_raises, within, log) ==
    LET invalid == GetValidationRaises(resource, action, data)
        msg == GetMsg(resource, version, action, data)
        raised == invalid \/ tx_msg_id = None IN
    /\ tx_msg_id = None \/ tx_msg_id < MaxMsgId
    /\ sent' = IF invalid THEN log ELSE Append(log, msg)
    /\ tx_msg_id' = IF raised THEN tx_msg_id ELSE NextMsgId(tx_msg_id)
    /\ epoch' = IF invalid \/ epoch.start = None THEN epoch
                 ELSE [epoch EXCEPT !.ids = Append(@, msg.msgID)]
    /\ last' = [op |-> "get", within |-> within, resource |-> resource,
                version |-> version, action |-> action, data |-> data,
                send_raises |-> send_raises /\ ~invalid]
    /\ ret' = [of |-> "get", kind |-> IF raised THEN "raised" ELSE "returned"]
    /\ UNCHANGED <<features, session_id, services_initialized, services>>

-----------------------------------------------------------------------------
(* handle_message() *)

device_name == "hcpy"
device_id == "0badcafe"

\* the envelope reply() hands to ws.send (lines 217-227)
replyWithOwnMsgId(msg, reply_rec) ==
    [sID |-> msg.sID,
     msgID |-> tx_msg_id,
     resource |-> msg.resource,
     version |-> msg.version,
     action |-> "RESPONSE",
     data |-> <<reply_rec>>]

reply(msg, reply_rec) ==
    [sID |-> msg.sID,
     msgID |-> msg.msgID,
     resource |-> msg.resource,
     version |-> msg.version,
     action |-> "RESPONSE",
     data |-> <<reply_rec>>]

\* the loop over the records of a /ci/services frame (lines 383-386): the
\* table it leaves, and whether a record without its fields stopped it
RECURSIVE ServicesLoopKeepFirst(_, _)
ServicesLoopKeepFirst(table, data) ==
    IF data = <<>> THEN [table |-> table, raised |-> FALSE]
    ELSE LET service == Head(data) IN
         IF "version" \notin DOMAIN service \/ "service" \notin DOMAIN service
         THEN [table |-> table, raised |-> TRUE]
         ELSE ServicesLoopKeepFirst(
                table @@ (service.service :> [version |-> service.version]),
                Tail(data))

RECURSIVE ServicesLoop(_, _)
ServicesLoop(table, data) ==
    IF data = <<>> THEN [table |-> table, raised |-> FALSE]
    ELSE LET service == Head(data) IN
         IF "version" \notin DOMAIN service \/ "service" \notin DOMAIN service
         THEN [table |-> table, raised |-> TRUE]
         ELSE ServicesLoop(
                (service.service :> [version |-> service.version])
                    @@ [x \in DOMAIN table \ {service.service} |-> table[x]],
                Tail(data))

EmptyValues == [t |-> "empty"]

\* what handle_message leaves when nothing is touched
Untouched(values, raised) ==
    [session_id |-> session_id, tx_msg_id |-> tx_msg_id,
     services_initialized |-> services_initialized, services |-> services,
     token |-> token, out |-> <<>>, iv |-> FALSE,
     values |-> values, raised |-> raised]

HasRecord(msg) == "data" \in DOMAIN msg /\ Len(msg.data) > 0

\* POST /ei/initialValues (lines 326-339): the fields are assigned one by
\* one, so a missing key leaves the earlier assignments in place
HandleInitialValuesOnce(msg, send_raises) ==
    LET has_sid == "sID" \in DOMAIN msg
        has_id == has_sid /\ HasRecord(msg) /\ "edMsgID" \in DOMAIN msg.data[1]
        replies == has_id /\ "msgID" \in DOMAIN msg /\ "version" \in DOMAIN msg
        unset == session_id = None
    IN  [Untouched(EmptyValues, ~replies \/ send_raises) EXCEPT
            !.session_id = IF has_sid /\ unset THEN msg.sID ELSE session_id,
            !.tx_msg_id = IF has_id /\ unset THEN msg.data[1].edMsgID
                          ELSE tx_msg_id,
            !.iv = has_id /\ unset,
            !.out = IF replies
                    THEN <<reply(msg, [deviceType |-> "Application",
                                       deviceName |-> device_name,
                                       deviceID |-> device_id])>>
                    ELSE <<>>]

HandleInitialValues(msg, send_raises) ==
    LET has_sid == "sID" \in DOMAIN msg
        has_id == has_sid /\ HasRecord(msg) /\ "edMsgID" \in DOMAIN msg.data[1]
        replies == has_id /\ "msgID" \in DOMAIN msg /\ "version" \in DOMAIN msg
    IN  [Untouched(EmptyValues, ~replies \/ send_raises) EXCEPT
            !.session_id = IF has_sid THEN msg.sID ELSE session_id,
            !.tx_msg_id = IF has_id THEN msg.data[1].edMsgID ELSE tx_msg_id,
            !.iv = has_id,
            !.out = IF replies
                    THEN <<reply(msg, [deviceType |-> "Application",
                                       deviceName |-> device_name,
                                       deviceID |-> device_id])>>
                    ELSE <<>>]

\* RESPONSE or NOTIFY (lines 343-390)
HandleResponse(msg) ==
    LET resource == msg.resource IN
    IF resource \in {IzInfo, CiInfo, NiInfo}
    THEN Untouched(IF HasRecord(msg)
                   THEN [t |-> "record", rec |-> msg.data[1]]
                   ELSE EmptyValues, FALSE)
    ELSE IF resource \in {RoAllMandatoryValues, RoValues}
    THEN IF "data" \notin DOMAIN msg THEN Untouched(EmptyValues, FALSE)
         ELSE IF DOMAIN features # {} /\ ParseRaises(msg.data)
         THEN Untouched(EmptyValues, TRUE)
         ELSE Untouched(parse_values(features, msg.data), FALSE)
    ELSE IF resource = CiAuthentication
    THEN IF ~HasRecord(msg) THEN Untouched(EmptyValues, FALSE)
         ELSE IF "response" \notin DOMAIN msg.data[1]
         THEN Untouched(EmptyValues, TRUE)
         ELSE [Untouched(EmptyValues, FALSE) EXCEPT
                    !.token = msg.data[1].response]
    ELSE IF resource = CiServices
    THEN IF "data" \notin DOMAIN msg THEN Untouched(EmptyValues, TRUE)
         ELSE LET loop == ServicesLoop(services, msg.data) IN
              [Untouched(EmptyValues, loop.raised) EXCEPT
                    !.services = loop.table,
                    !.services_initialized =
                        IF loop.raised THEN services_initialized ELSE TRUE]
    ELSE Untouched(EmptyValues, FALSE)

\* handle_message(buf): the fields it leaves, the envelopes it hands to
\* ws.send, the values it returns, and whether it raises instead
handle_message_any_post(buf, send_raises) ==
    IF ~buf.json THEN Untouched(EmptyValues, TRUE)
    ELSE LET msg == buf.msg IN
    IF "resource" \notin DOMAIN msg \/ "action" \notin DOMAIN msg
    THEN Untouched(EmptyValues, TRUE)
    ELSE IF "code" \in DOMAIN msg
    THEN Untouched([t |-> "error", error |-> msg.code,
                    resource |-> msg.resource], FALSE)
    ELSE IF msg.action = "POST"
    THEN HandleInitialValues(msg, send_raises)
    ELSE IF msg.action \in {"RESPONSE", "NOTIFY"}
    THEN HandleResponse(msg)
    ELSE Untouched(EmptyValues, FALSE)

handle_message_code_unread(buf, send_raises) ==
    IF ~buf.json THEN Untouched(EmptyValues, TRUE)
    ELSE LET msg == buf.msg IN
    IF "resource" \notin DOMAIN msg \/ "action" \notin DOMAIN msg
    THEN Untouched(EmptyValues, TRUE)
    ELSE IF msg.action = "POST"
    THEN IF msg.resource = EiInitialValues
         THEN HandleInitialValues(msg, send_raises)
         ELSE Untouched(EmptyValues, FALSE)
    ELSE IF msg.action \in {"RESPONSE", "NOTIFY"}
    THEN HandleResponse(msg)
    ELSE Untouched(EmptyValues, FALSE)

handle_message(buf, send_raises) ==
    IF ~buf.json THEN Untouched(EmptyValues, TRUE)
    ELSE LET msg == buf.msg IN
    IF "resource" \notin DOMAIN msg \/ "action" \notin DOMAIN msg
    THEN Untouched(EmptyValues, TRUE)
    ELSE IF "code" \in DOMAIN msg
    THEN Untouched([t |-> "error", error |-> msg.code,
                    resource |-> msg.resource], FALSE)
    ELSE IF msg.action = "POST"
    THEN IF msg.resource = EiInitialValues
         THEN HandleInitialValues(msg, send_raises)
         ELSE Untouched(EmptyValues, FALSE)
    ELSE IF msg.action \in {"RESPONSE", "NOTIFY"}
    THEN HandleResponse(msg)
    ELSE Untouched(EmptyValues, FALSE)

-----------------------------------------------------------------------------
(* Inputs: the catalog, the calls of get() and the frames ws.recv() delivers *)

NoToken == "None"

DefaultFeatures ==
    (StrNat(12) :> [name |-> <<"BSH", "Common", "Setting", "PowerState">>,
                    access |-> "readWrite",
                    values |-> (StrNat(1) :> "Off" @@ StrNat(2) :> "On")])
    @@ (StrNat(5) :> [name |-> <<"Cooking", "Common", "Program", "Eco">>,
                      access |-> "read"])
    @@ (StrNat(30) :> [name |-> <<"BSH", "Common", "Option", "Duration">>,
                       access |-> "readwrite",
                       min |-> StrNat(1), max |-> StrNat(10)])

GoodWrite == [uid |-> PyInt(12), value |-> PyInt(2)]
BadWrite == [uid |-> PyInt(30), value |-> PyInt(11)]
GoodProgram == [program |-> PyInt(5), options |-> <<[uid |-> PyInt(30)]>>]
BadProgram == [program |-> PyInt(12)]

Call(resource, version, action, data) ==
    [resource |-> resource, version |-> version, action |-> action, data |-> data]

GetCalls ==
    { Call(CiInfo, 1, "GET", NoData),
      Call(CiInfo, 2, "GET", NoData),
      Call(Path("xx", "info"), 2, "GET", NoData),
      Call(<<"plain">>, 1, "GET", NoData),
      Call(RoValues, 1, "GET", DataList(<<BadWrite>>)),
      Call(RoActiveProgram, 1, "POST", DataList(<<GoodProgram>>)),
      Call(RoActiveProgram, 1, "POST", OneDict(BadProgram)) }
    \cup { Call(RoValues, 1, "POST", d) :
            d \in { OneDict(GoodWrite), DataList(<<BadWrite>>),
                    DataList(<<GoodWrite, BadWrite>>) } }

Frame(msg) == [json |-> TRUE, msg |-> msg]
Garbage == [json |-> FALSE]

Env(resource, action) ==
    [sID |-> 1, msgID |-> 7, resource |-> resource, version |-> 1, action |-> action]

InitialValues(sID, edMsgID) ==
    [Env(EiInitialValues, "POST") EXCEPT !.sID = sID]
        @@ [data |-> <<[edMsgID |-> edMsgID]>>]

Without(msg, key) == [k \in DOMAIN msg \ {key} |-> msg[k]]

Responses(resource, datas) ==
    { Env(resource, "RESPONSE") @@ [data |-> d] : d \in datas }

Ci3 == [service |-> "ci", version |-> 3]
Ci4 == [service |-> "ci", version |-> 4]
Ni3 == [service |-> "ni", version |-> 3]

\* POST /ei/initialValues, well-formed
InitialValuesFrames == { InitialValues(1, 0), InitialValues(2, 1) }

\* RESPONSE/NOTIFY /ci/services, well-formed
ServicesFrames ==
    Responses(CiServices, { <<>>, <<Ci3, Ni3>>, <<Ci3, Ci4>> })
    \cup { Env(CiServices, "NOTIFY") @@ [data |-> <<Ci4>>] }

\* frames a handler of handle_message accepts and acts on or returns from
HandledFrames ==
    Responses(CiAuthentication, { <<[response |-> "resp"]>> })
    \cup Responses(CiInfo, { <<[deviceID |-> "dev"]>> })
    \cup { Env(CiAuthentication, "RESPONSE"), Env(RoValues, "RESPONSE") }
    \cup { Env(RoValues, "NOTIFY") @@ [data |-> <<GoodWrite>>] }

\* frames that are well-formed and not acted on
IgnoredFrames ==
    { Env(r, "RESPONSE") :
        r \in { RoDescriptionChange, RoAllDescriptionChanges,
                NiConfig, CiTzInfo, Path("xx", "yy") } }
    \cup { Env(CiRegisteredDevices, "NOTIFY") }
    \cup { Env(RoValues, "POST"), Env(CiInfo, "GET") }

\* frames that carry the device's error code
CodeFrames ==
    { m @@ [code |-> 403] :
        m \in { InitialValues(2, 1),
                Env(CiAuthentication, "NOTIFY") @@ [data |-> <<[response |-> "resp"]>>],
                Env(CiServices, "RESPONSE") @@ [data |-> <<Ci4>>] } }

\* frames that are not decodable, lack resource or action, or whose records
\* lack a field their handler reads
MalformedMsgs ==
    { Without(Env(CiInfo, "RESPONSE"), "resource"),
      Without(Env(CiInfo, "RESPONSE"), "action"),
      Without(InitialValues(2, 1), "sID"),
      Without(InitialValues(2, 1), "data"),
      Without(InitialValues(2, 1), "version"),
      [InitialValues(2, 1) EXCEPT !.data = <<[other |-> 0]>>],
      Env(CiServices, "RESPONSE"),
      Env(CiServices, "RESPONSE") @@ [data |-> <<Ci4, [service |-> "ni"]>>],
      Env(CiAuthentication, "RESPONSE") @@ [data |-> <<[other |-> 0]>>],
      Env(RoValues, "RESPONSE") @@ [data |-> <<[uid |-> PyInt(12)]>>] }

MalformedFrames == { Frame(m) : m \in MalformedMsgs } \cup { Garbage }

Frames ==
    { Frame(m) : m \in InitialValuesFrames \cup ServicesFrames \cup HandledFrames
                        \cup IgnoredFrames \cup CodeFrames }
    \cup MalformedFrames

-----------------------------------------------------------------------------
(* recv() *)

\* recv() when ws.recv() returns None or raises: None, nothing touched
RecvNothing(outcome, within, log) ==
    /\ sent' = log
    /\ last' = [op |-> "recv", within |-> within, wsrecv |-> outcome]
    /\ ret' = [of |-> "recv", kind |-> "None"]
    /\ UNCHANGED <<features, session, epoch>>

\* recv() when ws.recv() delivers buf: handle_message runs, and whatever it
\* raises is caught
RecvFrame(buf, send_raises, within, log) ==
    LET h == handle_message(buf, send_raises) IN
    /\ session_id' = h.session_id
    /\ tx_msg_id' = h.tx_msg_id
    /\ services_initialized' = h.services_initialized
    /\ services' = h.services
    /\ token' = h.token
    /\ sent' = log \o h.out
    /\ epoch' = IF h.iv THEN [start |-> h.tx_msg_id, ids |-> <<>>] ELSE epoch
    /\ last' = [op |-> "recv", within |-> within, wsrecv |-> "frame",
                frame |-> buf, send_raises |-> send_raises]
    /\ ret' = IF h.raised THEN [of |-> "recv", kind |-> "None"]
              ELSE [of |-> "recv", kind |-> "values", values |-> h.values]
    /\ UNCHANGED features

\* ws.send can raise only where handle_message calls it
SendOutcomes(buf) ==
    IF handle_message(buf, FALSE).out = <<>> THEN {FALSE} ELSE BOOLEAN

recv(within, log) ==
    \/ \E outcome \in {"none", "raise"} : RecvNothing(outcome, within, log)
    \/ \E buf \in Frames : \E send_raises \in SendOutcomes(buf) :
            RecvFrame(buf, send_raises, within, log)

-----------------------------------------------------------------------------
(* reconnect() *)

\* the nonces base64url_encode(get_random_bytes(32)) with "=" removed can be
Nonces == {"nonce"}

\* the requests after the loop (lines 289-306), in the order of the code
PostDiscoverySwapped(nonce) ==
    << Call(CiAuthentication, 2, "GET", OneDict([nonce |-> nonce])),
       Call(CiInfo, 1, "GET", NoData),
       Call(IzInfo, 1, "GET", NoData),
       Call(CiRegisteredDevices, 1, "GET", NoData),
       Call(NiInfo, 1, "GET", NoData),
       Call(EiDeviceReady, 2, "NOTIFY", NoData),
       Call(RoAllMandatoryValues, 1, "GET", NoData) >>

PostDiscovery(nonce) ==
    << Call(CiAuthentication, 2, "GET", OneDict([nonce |-> nonce])),
       Call(CiInfo, 1, "GET", NoData),
       Call(IzInfo, 1, "GET", NoData),
       Call(CiRegisteredDevices, 1, "GET", NoData),
       Call(EiDeviceReady, 2, "NOTIFY", NoData),
       Call(NiInfo, 1, "GET", NoData),
       Call(RoAllMandatoryValues, 1, "GET", NoData) >>

\* no reconnect() is running
NoRun == [fresh |-> FALSE, iv_first |-> FALSE, rx_services |-> FALSE]

\* the object is as __init__ left it
Fresh ==
    /\ session_id = None /\ tx_msg_id = None
    /\ services_initialized = FALSE /\ DOMAIN services = {}
    /\ token = NoToken

\* recv() dispatched a well-formed POST to /ei/initialValues
GotInitialValues(call) ==
    /\ call.op = "recv" /\ call.wsrecv = "frame" /\ call.frame.json
    /\ call.frame.msg \in InitialValuesFrames

\* recv() was handed a RESPONSE or NOTIFY on /ci/services
GotServices(call) ==
    /\ call.op = "recv" /\ call.wsrecv = "frame" /\ call.frame.json
    /\ {"resource", "action"} \subseteq DOMAIN call.frame.msg
    /\ call.frame.msg.resource = CiServices
    /\ call.frame.msg.action \in {"RESPONSE", "NOTIFY"}

\* reconnect(): ws.reconnect() (line 269), which assigns no field
Reconnect ==
    /\ pc = "idle"
    /\ run' = [NoRun EXCEPT !.fresh = Fresh]
    /\ UNCHANGED session
    /\ pc' = "rc_recv1"
    /\ sent' = <<>>
    /\ loops' = 0
    /\ last' = [op |-> "ws.reconnect", within |-> "reconnect"]
    /\ ret' = [of |-> "reconnect", kind |-> "running"]
    /\ UNCHANGED <<features, step, epoch>>

\* reconnect(): the first recv() (line 272)
ReconnectRecv ==
    /\ pc = "rc_recv1"
    /\ recv("reconnect", sent)
    /\ pc' = "rc_get_services"
    /\ run' = [run EXCEPT !.iv_first = GotInitialValues(last'),
                          !.rx_services = GotServices(last')]
    /\ UNCHANGED <<step, loops>>

\* reconnect(): get("/ci/services") (line 276); what get() raises ends the call
ReconnectGetServices ==
    /\ pc = "rc_get_services"
    /\ \E send_raises \in BOOLEAN :
            get(CiServices, 1, "GET", NoData, send_raises, "reconnect", sent)
    /\ pc' = IF ret'.kind = "raised" THEN "returned" ELSE "rc_loop"
    /\ UNCHANGED <<token, step, loops, run>>

\* reconnect(): one turn of the loop (lines 277-280)
ReconnectLoop ==
    /\ pc = "rc_loop"
    /\ loops < MaxLoops
    /\ recv("reconnect", sent)
    /\ loops' = loops + 1
    /\ run' = [run EXCEPT !.rx_services = @ \/ GotServices(last')]
    /\ IF services_initialized'
       THEN pc' = "rc_post" /\ step' = 1
       ELSE UNCHANGED <<pc, step>>

\* reconnect(): the next request after the loop (lines 287-306); the token is
\* drawn before the first of them
ReconnectPost ==
    /\ pc = "rc_post"
    /\ \E nonce \in Nonces : \E send_raises \in BOOLEAN :
        LET tok == IF step = 1 THEN nonce ELSE token
            call == PostDiscovery(tok)[step] IN
        /\ token' = tok
        /\ get(call.resource, call.version, call.action, call.data,
               send_raises, "reconnect", sent)
    /\ IF ret'.kind = "raised" \/ step = Len(PostDiscovery(token'))
       THEN pc' = "returned" /\ step' = 0
       ELSE pc' = pc /\ step' = step + 1
    /\ UNCHANGED <<loops, run>>

-----------------------------------------------------------------------------
(* The caller's own calls *)

Get ==
    /\ pc = "idle"
    /\ \E call \in GetCalls : \E send_raises \in BOOLEAN :
            get(call.resource, call.version, call.action, call.data,
                send_raises, "caller", <<>>)
    /\ pc' = "returned"
    /\ UNCHANGED <<token, step, loops, run>>

Recv ==
    /\ pc = "idle"
    /\ recv("caller", <<>>)
    /\ pc' = "returned"
    /\ UNCHANGED <<step, loops, run>>

\* the public call is over: its caller has the result and the envelopes are
\* on the wire
NoCall == [op |-> "none", within |-> "caller"]
NoResult == [of |-> "none", kind |-> "none"]

Return ==
    /\ pc = "returned"
    /\ pc' = "idle"
    /\ sent' = <<>>
    /\ last' = NoCall
    /\ ret' = NoResult
    /\ run' = NoRun
    /\ UNCHANGED <<features, session, step, loops, epoch>>

-----------------------------------------------------------------------------
(* The specification *)

\* __init__ (lines 58-69)
Init ==
    /\ features = DefaultFeatures
    /\ session_id = None
    /\ tx_msg_id = None
    /\ services_initialized = FALSE
    /\ services = NoFields
    /\ token = NoToken
    /\ pc = "idle"
    /\ step = 0
    /\ loops = 0
    /\ sent = <<>>
    /\ last = NoCall
    /\ ret = NoResult
    /\ epoch = [start |-> None, ids |-> <<>>]
    /\ run = NoRun

Next ==
    \/ Get
    \/ Recv
    \/ Return
    \/ Reconnect
    \/ ReconnectRecv
    \/ ReconnectGetServices
    \/ ReconnectLoop
    \/ ReconnectPost

Spec == Init /\ [][Next]_vars

-----------------------------------------------------------------------------
(* test_feature on its own: every descriptor shape against every record *)

AccessParts ==
    { NoFields, [access |-> "read"], [access |-> "readWrite"],
      [access |-> "WRITEONLY"] }
ValuesParts == { NoFields, [values |-> (StrNat(2) :> "A" @@ StrNat(11) :> "B")] }
RangeParts == { NoFields, [min |-> StrNat(2), max |-> StrNat(10)] }

Descriptors ==
    { [name |-> <<"BSH", "Common", "Setting", "Level">>] @@ a @@ v @@ r :
        a \in AccessParts, v \in ValuesParts, r \in RangeParts }

Catalogs == { StrNat(12) :> d : d \in Descriptors }

UidParts ==
    { NoFields, [uid |-> PyInt(12)], [uid |-> PyInt(1)],
      [uid |-> PyStr(StrNat(12))] }
ValueParts ==
    { NoFields, [value |-> PyStr(StrNat(2))] }
    \cup { [value |-> PyInt(n)] : n \in {1, 2, 10, 11} }

WriteRecords == { u @@ v : u \in UidParts, v \in ValueParts }

Batches == UNION { [1..n -> WriteRecords] : n \in 0..MaxBatch }

InitTF ==
    /\ features \in Catalogs
    /\ session_id = None
    /\ tx_msg_id = None
    /\ services_initialized = FALSE
    /\ services = NoFields
    /\ token = NoToken
    /\ pc = "idle"
    /\ step = 0
    /\ loops = 0
    /\ sent = <<>>
    /\ last = NoCall
    /\ ret = NoResult
    /\ epoch = [start |-> None, ids |-> <<>>]
    /\ run = NoRun

\* a call of test_feature(data_array)
TestFeature ==
    /\ pc = "idle"
    /\ \E data \in Batches :
        /\ last' = [op |-> "test_feature", within |-> "caller", data |-> data]
        /\ ret' = [of |-> "test_feature",
                   kind |-> IF test_feature(features, data)
                            THEN "returned" ELSE "raised"]
    /\ pc' = "returned"
    /\ UNCHANGED <<features, session, step, loops, sent, epoch, run>>

NextTF == TestFeature

SpecTF == InitTF /\ [][NextTF]_vars

-----------------------------------------------------------------------------
(* C10: value-write validation *)

\* the record names a feature of the catalog by an integer uid and has a value
Covered(r) ==
    /\ "uid" \in DOMAIN r /\ IsInt(r.uid) /\ StrNat(r.uid.i) \in DOMAIN features
    /\ "value" \in DOMAIN r

WritableAccess(f) ==
    "access" \in DOMAIN f /\ Lower(f.access) \in {"readwrite", "writeonly"}

InRange(f, v) ==
    IsInt(v) /\ IntOf(f.min) <= v.i /\ v.i <= IntOf(f.max)

\* the criterion as the claim words it: the enumeration asks only that the
\* string form of the value be a key
CriterionAsClaimed(r) ==
    LET f == features[StrNat(r.uid.i)] IN
    /\ WritableAccess(f)
    /\ ("values" \in DOMAIN f => Str(r.value) \in DOMAIN f.values)
    /\ ("min" \in DOMAIN f => InRange(f, r.value))

\* the criterion with the enumeration asking for an integer value as well
CriterionAmended(r) ==
    LET f == features[StrNat(r.uid.i)] IN
    /\ WritableAccess(f)
    /\ ("values" \in DOMAIN f =>
            IsInt(r.value) /\ Str(r.value) \in DOMAIN f.values)
    /\ ("min" \in DOMAIN f => InRange(f, r.value))

TFDone == last.op = "test_feature"
TFAccepted == ret.kind = "returned"

\* a record whose uid is absent from the catalog is rejected, and a batch is
\* accepted iff each of its records is accepted on its own
TFBatchLaw ==
    /\ (\E k \in 1..Len(last.data) :
            /\ "uid" \in DOMAIN last.data[k]
            /\ Str(last.data[k].uid) \notin DOMAIN features) => ~TFAccepted
    /\ TFAccepted <=>
            \A k \in 1..Len(last.data) :
                test_feature(features, <<last.data[k]>>)

\* C10 as claimed: value-write validation rejects every record whose uid is
\* absent from the catalog; a record with an integer uid of the catalog and a
\* value is accepted iff the access is readwrite or writeonly, the string
\* form of the value is a key of a declared enumeration and the value is an
\* integer within a declared [min, max]; a batch is accepted iff every record is.
C10_AsClaimed ==
    TFDone =>
        /\ TFBatchLaw
        /\ (Len(last.data) = 1 /\ Covered(last.data[1]) =>
                (TFAccepted <=> CriterionAsClaimed(last.data[1])))

\* C10 amended: as C10, with a declared enumeration accepting a value only
\* if the value is an integer whose string form is a key of the enumeration.
C10_Validation ==
    TFDone =>
        /\ TFBatchLaw
        /\ (Len(last.data) = 1 /\ Covered(last.data[1]) =>
                (TFAccepted <=> CriterionAmended(last.data[1])))

\* a batch of two records accepted under a descriptor that declares both an
\* enumeration and a range
C10_Witness ==
    /\ TFDone /\ TFAccepted
    /\ Len(last.data) = 2
    /\ {"values", "min"} \subseteq DOMAIN features[StrNat(12)]

-----------------------------------------------------------------------------
(* test_program_data on its own: program names against activation records *)

ProgramNames ==
    { <<"Cooking", "Common", "Program", "Eco">>,
      <<"BSH", "Common", "Program", "Favorite", "001">>,
      <<"Program", "Eco">>,
      <<"BSH", "Common", "Program">>,
      <<"BSH", "Common", "Setting", "Programs">> }

\* uid 5 is the feature a record names as its program; 30 and 31 are features
\* an option can name, one read-only and one with a range
ProgramCatalogs ==
    { (StrNat(5) :> [name |-> n, access |-> "readWrite"])
        @@ (StrNat(30) :> [name |-> <<"BSH", "Common", "Option", "Duration">>,
                           access |-> "read"])
        @@ (StrNat(31) :> [name |-> <<"BSH", "Common", "Option", "Level">>,
                           access |-> "readwrite",
                           min |-> StrNat(1), max |-> StrNat(3)]) :
        n \in ProgramNames }

ProgramParts ==
    { NoFields, [program |-> PyInt(5)], [program |-> PyInt(7)],
      [program |-> PyStr(StrNat(5))] }
OptionsParts ==
    { NoFields,
      [options |-> <<>>],
      [options |-> <<[uid |-> PyInt(30)]>>],
      [options |-> <<[uid |-> PyInt(31), value |-> PyInt(9)],
                     [uid |-> PyStr(StrNat(30))]>>],
      [options |-> <<[uid |-> PyInt(30)], [uid |-> PyInt(99)]>>],
      [options |-> <<[value |-> PyInt(1)]>>] }

ProgramRecords == { p @@ o : p \in ProgramParts, o \in OptionsParts }

ProgramBatches == UNION { [1..n -> ProgramRecords] : n \in 0..MaxBatch }

InitTP ==
    /\ features \in ProgramCatalogs
    /\ session_id = None
    /\ tx_msg_id = None
    /\ services_initialized = FALSE
    /\ services = NoFields
    /\ token = NoToken
    /\ pc = "idle"
    /\ step = 0
    /\ loops = 0
    /\ sent = <<>>
    /\ last = NoCall
    /\ ret = NoResult
    /\ epoch = [start |-> None, ids |-> <<>>]
    /\ run = NoRun

\* a call of test_program_data(data_array)
TestProgramData ==
    /\ pc = "idle"
    /\ \E data \in ProgramBatches :
        /\ last' = [op |-> "test_program_data", within |-> "caller",
                    data |-> data]
        /\ ret' = [of |-> "test_program_data",
                   kind |-> IF test_program_data(features, data)
                            THEN "returned" ELSE "raised"]
    /\ pc' = "returned"
    /\ UNCHANGED <<features, session, step, loops, sent, epoch, run>>

NextTP == TestProgramData

SpecTP == InitTP /\ [][NextTP]_vars

-----------------------------------------------------------------------------
(* C11: program-activation validation *)

\* the reasons the claim gives for rejecting a record
ProgramMissing(r) == "program" \notin DOMAIN r
ProgramNotInteger(r) == ~ProgramMissing(r) /\ ~IsInt(r.program)
ProgramUnknown(r) ==
    ~ProgramMissing(r) /\ IsInt(r.program)
        /\ StrNat(r.program.i) \notin DOMAIN features
ProgramUnmarked(r) ==
    /\ ~ProgramMissing(r) /\ IsInt(r.program)
    /\ StrNat(r.program.i) \in DOMAIN features
    /\ LET name == features[StrNat(r.program.i)].name IN
        ~\E k \in 1..Len(name) : k > 1 /\ k < Len(name) /\ name[k] = "Program"
OptionUnknown(r) ==
    /\ "options" \in DOMAIN r
    /\ \E k \in 1..Len(r.options) :
            \/ "uid" \notin DOMAIN r.options[k]
            \/ Str(r.options[k].uid) \notin DOMAIN features

ProgramRejected(r) ==
    \/ ProgramMissing(r) \/ ProgramNotInteger(r) \/ ProgramUnknown(r)
    \/ ProgramUnmarked(r) \/ OptionUnknown(r)

TPDone == last.op = "test_program_data"
TPAccepted == ret.kind = "returned"

\* C11: test_program_data rejects every record whose program field is
\* missing, is not an integer, is absent from the catalog or names a feature
\* whose name has no ".Program." in it, and every record one of whose options
\* has a uid absent from the catalog; every other record it accepts, whatever
\* the access or the range of the features its options name; a batch is
\* accepted iff none of its records is rejected.
C11_ProgramValidation ==
    TPDone =>
        (TPAccepted <=> \A k \in 1..Len(last.data) : ~ProgramRejected(last.data[k]))

\* a batch of two accepted though an option of it names a read-only feature
\* and another carries a value outside the range of its feature
C11_Witness ==
    /\ TPDone /\ TPAccepted
    /\ Len(last.data) = 2
    /\ \E k \in 1..2 :
        /\ "options" \in DOMAIN last.data[k]
        /\ Len(last.data[k].options) = 2
        /\ "value" \in DOMAIN last.data[k].options[1]
        /\ last.data[k].options[1].value.i > IntOf(features[StrNat(31)].max)
        /\ features[Str(last.data[k].options[2].uid)].access = "read"

-----------------------------------------------------------------------------
(* parse_values on its own: value reports dispatched against several catalogs *)

\* uids 12 and 13 have names with the same last segment; 14 has a name of one
\* segment and an enumeration
ValueCatalog ==
    (StrNat(12) :> [name |-> <<"BSH", "Common", "Setting", "PowerState">>,
                    access |-> "readWrite",
                    values |-> (StrNat(1) :> "Off" @@ StrNat(2) :> "On")])
    @@ (StrNat(13) :> [name |-> <<"BSH", "Common", "Status", "PowerState">>,
                       access |-> "read"])
    @@ (StrNat(14) :> [name |-> <<"Door">>, access |-> "read",
                       values |-> (StrNat(1) :> "Open")])

ValueCatalogs == { NoFields, ValueCatalog, DefaultFeatures }

ValueRecords ==
    { [uid |-> u, value |-> v] :
        u \in { PyInt(12), PyInt(13), PyInt(14), PyInt(99), PyStr(StrNat(12)) },
        v \in { PyInt(1), PyInt(3), PyStr(StrNat(2)) } }

ValueBatches == UNION { [1..n -> ValueRecords] : n \in 0..MaxBatch }

ValuesFrames ==
    { Frame(Env(RoValues, "NOTIFY") @@ [data |-> d]) : d \in ValueBatches }
    \cup { Frame(Env(RoAllMandatoryValues, "RESPONSE") @@ [data |-> d]) :
                d \in ValueBatches }

InitPV ==
    /\ features \in ValueCatalogs
    /\ session_id = None
    /\ tx_msg_id = None
    /\ services_initialized = FALSE
    /\ services = NoFields
    /\ token = NoToken
    /\ pc = "idle"
    /\ step = 0
    /\ loops = 0
    /\ sent = <<>>
    /\ last = NoCall
    /\ ret = NoResult
    /\ epoch = [start |-> None, ids |-> <<>>]
    /\ run = NoRun

\* recv() of a value report
RecvValues ==
    /\ pc = "idle"
    /\ \E buf \in ValuesFrames : RecvFrame(buf, FALSE, "caller", <<>>)
    /\ pc' = "returned"
    /\ UNCHANGED <<step, loops, run>>

NextPV == RecvValues

SpecPV == InitPV /\ [][NextPV]_vars

-----------------------------------------------------------------------------
(* What the claims speak of *)

\* the step is a call of get(), by the caller or by reconnect()
GetStep == last'.op = "get" /\ pc # "returned"

\* the step is a call of recv() to which ws.recv() delivers a frame
RecvStep == last'.op = "recv" /\ pc # "returned" /\ last'.wsrecv = "frame"

\* the envelopes the public call had handed to ws.send before the step
LogBefore == IF pc = "idle" THEN <<>> ELSE sent

GetDone == last.op = "get"
RecvDone == last.op = "recv" /\ last.wsrecv = "frame"

\* the latest get() handed an envelope to ws.send
GetSent(call) ==
    ~ /\ call.data.kind # "none"
      /\ call.action = "POST"
      /\ \/ call.resource = RoValues /\ ~test_feature(features, call.data.recs)
         \/ call.resource = RoActiveProgram
                /\ ~test_program_data(features, call.data.recs)

LastEnvelope == sent[Len(sent)]

reconnectReturned ==
    pc = "returned" /\ last.within = "reconnect" /\ ret.kind = "returned"

-----------------------------------------------------------------------------
(* C1: the message-id counter *)

\* C1: in the session an /ei/initialValues POST establishes, the k-th envelope
\* get() sends carries msgID edMsgID + k - 1 and the counter stands one past
\* the latest of them: it starts at edMsgID, grows by exactly one per
\* envelope, and no msgID is used twice.
C1_MessageIds ==
    epoch.start # None =>
        /\ \A k \in 1..Len(epoch.ids) : epoch.ids[k] = epoch.start + k - 1
        /\ tx_msg_id = epoch.start + Len(epoch.ids)

\* three envelopes sent by the caller's get() in a session, frames in between
C1_Witness ==
    /\ epoch.start = 1
    /\ Len(epoch.ids) >= 3
    /\ GetDone /\ last.within = "caller"
    /\ services_initialized

-----------------------------------------------------------------------------
(* C2: reconnect() and the previous session *)

\* C2: once reconnect() has reconnected the transport and before it receives
\* any frame, servicesDiscovered is false, the services table is empty and
\* the session id, the counter and the token are unset.
C2_ReconnectResets ==
    pc = "rc_recv1" =>
        /\ services_initialized = FALSE
        /\ DOMAIN services = {}
        /\ tx_msg_id = None
        /\ session_id = None
        /\ token = NoToken

-----------------------------------------------------------------------------
(* C3: a payload that fails validation *)

\* a POST of get() to /ro/values or /ro/activeProgram with a record the
\* validator of that resource rejects
InvalidWrite(call) ==
    /\ call.action = "POST"
    /\ call.data.kind # "none"
    /\ \/ /\ call.resource = RoValues
          /\ \E k \in 1..Len(call.data.recs) :
                ~test_feature(features, <<call.data.recs[k]>>)
       \/ /\ call.resource = RoActiveProgram
          /\ \E k \in 1..Len(call.data.recs) :
                ~test_program_data(features, <<call.data.recs[k]>>)

\* C3: a get() POST to /ro/values or /ro/activeProgram with a record that fails
\* validation raises to its caller, hands nothing to ws.send and leaves the
\* session state, the counter included, as it was.
C3_InvalidWriteNotSent ==
    [][GetStep /\ InvalidWrite(last') =>
            /\ ret'.kind = "raised"
            /\ sent' = LogBefore
            /\ UNCHANGED session]_vars

\* a batch whose second record is the invalid one, on an established session
C3_Witness ==
    /\ GetDone /\ ret.kind = "raised"
    /\ last.resource = RoValues
    /\ last.data = DataList(<<GoodWrite, BadWrite>>)
    /\ tx_msg_id # None
    /\ sent = <<>>

-----------------------------------------------------------------------------
(* C4: malformed frames *)

\* C4: recv() of a malformed frame (not decodable, without resource or action,
\* or with records lacking a field the handler reads) returns None and leaves
\* every field of the session state as it was.
C4_MalformedLeavesState ==
    [][RecvStep /\ last'.frame \in MalformedFrames =>
            /\ ret'.kind = "None"
            /\ UNCHANGED session]_vars

-----------------------------------------------------------------------------
(* C5, C6: the services table and the version of an envelope *)

\* a well-formed /ci/services frame has just been dispatched
ServicesDispatched ==
    RecvDone /\ last.frame.json /\ last.frame.msg \in ServicesFrames

\* the record at k is the last of the frame that names its service
LastForService(data, k) ==
    \A j \in (k + 1)..Len(data) : data[j].service # data[k].service

\* the top-level segment of the resource of the latest get() is in the table
SegmentKnown ==
    /\ services_initialized
    /\ Len(Split(last.resource)) > 1
    /\ Split(last.resource)[2] \in DOMAIN services

\* C5 as claimed: after a /ci/services frame is dispatched, servicesDiscovered
\* is true and services[s].version = v for every record {service: s,
\* version: v} of it; a get() with no explicit version to a resource whose
\* top-level segment is in the table sends the version of the table.
C5_AsClaimed ==
    /\ ServicesDispatched =>
        /\ services_initialized
        /\ \A k \in 1..Len(last.frame.msg.data) :
            LET service == last.frame.msg.data[k] IN
            /\ service.service \in DOMAIN services
            /\ services[service.service].version = service.version
    /\ GetDone /\ GetSent(last) /\ last.version = 1 /\ SegmentKnown =>
        LastEnvelope.version = services[Split(last.resource)[2]].version

\* C5 amended: as C5, for every record that is the last of its frame to name
\* its service (a later record of the frame for the same service overwrites
\* an earlier one).
C5_ServicesTable ==
    /\ ServicesDispatched =>
        /\ services_initialized
        /\ \A k \in 1..Len(last.frame.msg.data) :
            LET service == last.frame.msg.data[k] IN
            /\ service.service \in DOMAIN services
            /\ LastForService(last.frame.msg.data, k) =>
                    services[service.service].version = service.version
    /\ GetDone /\ GetSent(last) /\ last.version = 1 /\ SegmentKnown =>
        LastEnvelope.version = services[Split(last.resource)[2]].version

\* a frame naming "ci" twice has been dispatched
C5_Witness ==
    /\ ServicesDispatched
    /\ Len(last.frame.msg.data) = 2
    /\ ~LastForService(last.frame.msg.data, 1)
    /\ services["ci"].version = 4

\* C6 as claimed: an envelope of a get() that supplies an explicit version
\* carries that version, also when the table has the top-level segment; when
\* the segment is not in the table the envelope carries the version of the
\* caller and the call still sends.
C6_AsClaimed ==
    /\ GetDone /\ GetSent(last) /\ last.version # 1 =>
        LastEnvelope.version = last.version
    /\ GetDone /\ GetSent(last) /\ ~SegmentKnown =>
        Len(sent) > 0 /\ LastEnvelope.version = last.version

\* C6 amended: once services are discovered, an envelope to a resource whose
\* top-level segment is in the table carries the version of the table, an
\* explicit version of the caller included; otherwise (services not
\* discovered, or the segment not in the table) it carries the version of the
\* caller, and the call sends all the same.
C6_VersionOfEnvelope ==
    GetDone /\ GetSent(last) =>
        /\ Len(sent) > 0
        /\ LastEnvelope.resource = last.resource
        /\ LastEnvelope.version =
                IF SegmentKnown
                THEN services[Split(last.resource)[2]].version
                ELSE last.version

\* /ci/authentication of reconnect(), asked with version 2, sent with the
\* version the table has for "ci"
C6_Witness ==
    /\ GetDone /\ last.within = "reconnect"
    /\ last.resource = CiAuthentication /\ last.version = 2
    /\ LastEnvelope.version = 3

-----------------------------------------------------------------------------
(* C7: the requests of reconnect() after the loop *)

\* the resources and actions in the order the claim gives
C7_Order ==
    << [resource |-> CiAuthentication, action |-> "GET"],
       [resource |-> CiInfo, action |-> "GET"],
       [resource |-> IzInfo, action |-> "GET"],
       [resource |-> CiRegisteredDevices, action |-> "GET"],
       [resource |-> EiDeviceReady, action |-> "NOTIFY"],
       [resource |-> NiInfo, action |-> "GET"],
       [resource |-> RoAllMandatoryValues, action |-> "GET"] >>

\* how many of them reconnect() has handed to ws.send
PostSent ==
    IF pc = "rc_post" THEN step - 1
    ELSE IF reconnectReturned THEN Len(C7_Order)
    ELSE 0

\* C7: the requests reconnect() makes after the loop reach ws.send in the
\* order /ci/authentication, /ci/info, /iz/info, /ci/registeredDevices,
\* /ei/deviceReady (NOTIFY), /ni/info, /ro/allMandatoryValues with consecutive
\* msgIDs, nothing else sent and no recv() made between two of them; a run
\* that completes has sent all seven.
C7_PostDiscoveryOrder ==
    /\ PostSent <= Len(sent)
    /\ \A j \in 1..PostSent :
        LET e == sent[Len(sent) - PostSent + j] IN
        /\ e.resource = C7_Order[j].resource
        /\ e.action = C7_Order[j].action
        /\ j > 1 => e.msgID = sent[Len(sent) - PostSent + j - 1].msgID + 1
    /\ PostSent > 0 => GetDone /\ last.resource = C7_Order[PostSent].resource

\* a run of reconnect() that completed
C7_Witness ==
    /\ reconnectReturned
    /\ Len(sent) >= 9
    /\ LastEnvelope.resource = RoAllMandatoryValues
    /\ sent[Len(sent) - 2].resource = EiDeviceReady

-----------------------------------------------------------------------------
(* C8: the /ei/initialValues handshake *)

\* the RESPONSE the claim asks for
IdentityReply(msg) ==
    [sID |-> msg.sID, msgID |-> msg.msgID, resource |-> msg.resource,
     version |-> msg.version, action |-> "RESPONSE",
     data |-> <<[deviceType |-> "Application", deviceName |-> "hcpy",
                 deviceID |-> "0badcafe"]>>]

\* C8: the recv() that dispatches a POST to /ei/initialValues sets the session
\* id to the sID of the frame and the counter to data[0].edMsgID, and hands
\* to ws.send exactly one envelope, the RESPONSE with the identity record that
\* echoes sID, msgID, resource and version of the frame; the counter is not
\* advanced by it.
C8_InitialValues ==
    [][RecvStep /\ last'.frame.json
            /\ last'.frame.msg \in InitialValuesFrames =>
        /\ session_id' = last'.frame.msg.sID
        /\ tx_msg_id' = last'.frame.msg.data[1].edMsgID
        /\ sent' = Append(LogBefore, IdentityReply(last'.frame.msg))]_vars

\* the handshake frame of session 2 dispatched over an established session 1
C8_Witness ==
    /\ RecvDone /\ last.frame = Frame(InitialValues(2, 1))
    /\ session_id = 2 /\ tx_msg_id = 1
    /\ epoch = [start |-> 1, ids |-> <<>>]
    /\ Len(sent) >= 2
    /\ LastEnvelope.action = "RESPONSE"

-----------------------------------------------------------------------------
(* C9: the ids of an outbound envelope *)

\* C9, on the calls of get() that reconnect() makes, its first
\* get("/ci/services") included: every envelope get() hands to ws.send
\* carries the session id and the counter of the session, and neither is the
\* unset value.
C9_EnvelopeIdsSet ==
    GetDone /\ last.within = "reconnect" /\ GetSent(last) =>
        /\ LastEnvelope.sID = session_id
        /\ LastEnvelope.sID # None
        /\ LastEnvelope.msgID # None

-----------------------------------------------------------------------------
(* C12: normalization of a value report *)

\* recv() has just dispatched a value report
PVDone == RecvDone /\ last.frame \in ValuesFrames

\* the catalog has a descriptor for the stringified uid of the record
Described(r) == StrNat(IF IsInt(r.uid) THEN r.uid.i ELSE IntOf(r.uid.s))
                    \in DOMAIN features

DescriptorOf(r) ==
    features[StrNat(IF IsInt(r.uid) THEN r.uid.i ELSE IntOf(r.uid.s))]

\* the output value the claim gives for a record
ClaimedValue(r) ==
    IF /\ Described(r)
       /\ "values" \in DOMAIN DescriptorOf(r)
       /\ Str(r.value) \in DOMAIN DescriptorOf(r).values
    THEN PyLabel(DescriptorOf(r).values[Str(r.value)])
    ELSE r.value

\* the output key the claim gives for a record: the last segment of the name
\* of the descriptor, or the raw uid, which has the type the record gave it
ClaimedKey(r) ==
    IF Described(r)
    THEN [k |-> "name", n |-> DescriptorOf(r).name[Len(DescriptorOf(r).name)],
          u |-> <<>>, t |-> "str"]
    ELSE [k |-> "uid", n |-> "", u |-> Str(r.uid), t |-> r.uid.t]

\* the key with the raw uid in its string form
StringKey(r) == [ClaimedKey(r) EXCEPT !.t = "str"]

\* no later record of the report has the same output key
LastForKey(data, k) ==
    \A j \in (k + 1)..Len(data) : StringKey(data[j]) # StringKey(data[k])

\* C12 as claimed: for every record {uid, value} of a value report, the
\* result maps the last segment of the name of the descriptor of str(uid), or
\* the raw uid when the catalog has no descriptor, to the label of the
\* enumeration when str(value) is a key of it and to the raw value otherwise.
C12_AsClaimed ==
    PVDone =>
        /\ ret.kind = "values"
        /\ \A k \in 1..Len(last.frame.msg.data) :
            LET r == last.frame.msg.data[k] IN
            /\ ret.values.t = "parsed"
            /\ ClaimedKey(r) \in DOMAIN ret.values.items
            /\ ret.values.items[ClaimedKey(r)] = ClaimedValue(r)

\* C12 amended: with a catalog that is not empty the result is a mapping
\* whose keys are, for every record, the last segment of the name of the
\* descriptor or str(uid) when there is none, and the value under a key is the
\* one the claim gives for the last record of the report with that key; with
\* an empty catalog the result is the list of records itself.
C12_Normalization ==
    PVDone =>
        /\ ret.kind = "values"
        /\ DOMAIN features = {} =>
                ret.values = [t |-> "list", items |-> last.frame.msg.data]
        /\ DOMAIN features # {} =>
            /\ ret.values.t = "parsed"
            /\ DOMAIN ret.values.items =
                    { StringKey(last.frame.msg.data[k]) :
                        k \in 1..Len(last.frame.msg.data) }
            /\ \A k \in 1..Len(last.frame.msg.data) :
                LET r == last.frame.msg.data[k] IN
                LastForKey(last.frame.msg.data, k) =>
                    ret.values.items[StringKey(r)] = ClaimedValue(r)

\* a report of two records with different uids and the same output key, the
\* second of them resolved to a label
C12_Witness ==
    /\ PVDone
    /\ DOMAIN features # {}
    /\ Len(last.frame.msg.data) = 2
    /\ last.frame.msg.data[1].uid = PyInt(13)
    /\ last.frame.msg.data[2] = [uid |-> PyInt(12), value |-> PyInt(1)]
    /\ ret.values.items = (NameKey("PowerState") :> PyLabel("Off"))

-----------------------------------------------------------------------------
(* C13: frames that carry a code *)

\* the frame recv() dispatches in the step is decodable, has resource and
\* action, and carries a code
CodeStep ==
    /\ RecvStep
    /\ last'.frame.json
    /\ {"code", "resource", "action"} \subseteq DOMAIN last'.frame.msg

\* C13: dispatching a frame that carries a code, whatever its action and
\* resource, returns {error: code, resource}, hands nothing to ws.send and
\* leaves session id, counter, services table, servicesDiscovered and token
\* as they were.
C13_CodeFrame ==
    [][CodeStep =>
        /\ ret'.kind = "values"
        /\ ret'.values = [t |-> "error", error |-> last'.frame.msg.code,
                          resource |-> last'.frame.msg.resource]
        /\ sent' = LogBefore
        /\ UNCHANGED session]_vars

\* the handshake frame of session 2, with a code, dispatched by the loop of
\* reconnect() over session 1
C13_Witness ==
    /\ RecvDone /\ last.within = "reconnect"
    /\ last.frame.json /\ "code" \in DOMAIN last.frame.msg
    /\ last.frame.msg.resource = EiInitialValues
    /\ last.frame.msg.sID = 2
    /\ session_id = 1
    /\ pc = "rc_loop"
    /\ ret.kind = "values" /\ ret.values.error = 403

-----------------------------------------------------------------------------
(* C14: ws.send raising inside get() *)

\* C14: a get() on an established session whose ws.send raises returns
\* without raising and leaves the counter one past the msgID of the envelope
\* it handed to ws.send, with the rest of the session as it was; every
\* envelope of get() carries the counter as its msgID, so the next one is
\* one greater than the failed one.
C14_SendFailure ==
    [][GetStep /\ tx_msg_id # None /\ GetSent(last') =>
        /\ sent' = Append(LogBefore, LastEnvelope')
        /\ LastEnvelope'.msgID = tx_msg_id
        /\ last'.send_raises =>
            /\ ret'.kind = "returned"
            /\ tx_msg_id' = tx_msg_id + 1
            /\ UNCHANGED <<session_id, services_initialized, services>>]_vars

\* the second envelope of a session, its send raising, with a payload that
\* passed validation
C14_Witness ==
    /\ GetDone /\ last.within = "caller" /\ last.send_raises
    /\ last.resource = RoValues /\ last.action = "POST"
    /\ ret.kind = "returned"
    /\ epoch.start = 1 /\ epoch.ids = <<1, 2>>
    /\ tx_msg_id = 3

-----------------------------------------------------------------------------
(* C15: discovery before the post-discovery requests *)

\* C15: in every run of reconnect() a request of the sequence after the loop
\* is handed to ws.send only once a recv() of that run has got a /ci/services
\* response, and as long as none has, a recv() of the loop that dispatches
\* another frame does not end the loop.
C15_DiscoveryFirst ==
    [][/\ pc = "rc_post" /\ GetStep => run.rx_services
       /\ pc = "rc_loop" /\ RecvStep /\ ~run'.rx_services => pc' = "rc_loop"]_vars

-----------------------------------------------------------------------------
(* C16: servicesDiscovered and the established session *)

\* C16: in every reachable state servicesDiscovered implies that the session
\* id and the counter are set: a /ci/services response dispatched before any
\* /ei/initialValues POST does not make servicesDiscovered true.
C16_DiscoveredImpliesSession ==
    services_initialized => session_id # None /\ tx_msg_id # None

-----------------------------------------------------------------------------
(* C17: the handshake once /ei/initialValues came first *)

\* C17, as what a finite run shows of it: in a run of reconnect() whose first
\* recv() dispatched the /ei/initialValues POST, as long as no recv() has got
\* a /ci/services response the run is at get("/ci/services") or in the loop,
\* having sent no request of the sequence after the loop; and when the run
\* is over it has returned with all seven of them sent.
C17_HandshakeCompletes ==
    run.iv_first =>
        /\ ~run.rx_services => pc \in {"rc_get_services", "rc_loop"}
        /\ pc = "returned" =>
            /\ ret.kind = "returned"
            /\ Len(sent) >= Len(C7_Order) + 2
            /\ \A j \in 1..Len(C7_Order) :
                sent[Len(sent) - Len(C7_Order) + j].resource = C7_Order[j].resource

-----------------------------------------------------------------------------
(* C18: frames that are well-formed and not acted on *)

\* the frame is a POST to a resource other than /ei/initialValues, a RESPONSE
\* or NOTIFY on a resource the dispatcher ignores or does not know, or has an
\* action the dispatcher does not know; it carries no code
Unrecognized(msg) ==
    /\ {"resource", "action"} \subseteq DOMAIN msg
    /\ "code" \notin DOMAIN msg
    /\ \/ msg.action = "POST" /\ msg.resource # EiInitialValues
       \/ /\ msg.action \in {"RESPONSE", "NOTIFY"}
          /\ msg.resource \notin
                {IzInfo, CiInfo, NiInfo, RoAllMandatoryValues, RoValues,
                 CiAuthentication, CiServices}
       \/ msg.action \notin {"POST", "RESPONSE", "NOTIFY"}

\* C18: dispatching a well-formed frame that is unrecognized or ignored
\* returns the empty result, hands nothing to ws.send and leaves the whole
\* session state as it was.
C18_UnrecognizedFrame ==
    [][RecvStep /\ last'.frame.json /\ Unrecognized(last'.frame.msg) =>
        /\ ret'.kind = "values"
        /\ ret'.values = [t |-> "empty"]
        /\ sent' = LogBefore
        /\ UNCHANGED session]_vars

\* a POST to /ro/values dispatched by the loop of reconnect() on an
\* established session, the loop going on
C18_Witness ==
    /\ RecvDone /\ last.within = "reconnect"
    /\ last.frame = Frame(Env(RoValues, "POST"))
    /\ pc = "rc_loop"
    /\ session_id = 2 /\ tx_msg_id = 2
    /\ ret.kind = "values" /\ ret.values = [t |-> "empty"]

-----------------------------------------------------------------------------
(* C19: what modifies the session id and the counter *)

\* the step is a recv() that dispatches a POST to /ei/initialValues
InitialValuesStep ==
    /\ RecvStep /\ last'.frame.json
    /\ {"resource", "action"} \subseteq DOMAIN last'.frame.msg
    /\ "code" \notin DOMAIN last'.frame.msg
    /\ last'.frame.msg.action = "POST"
    /\ last'.frame.msg.resource = EiInitialValues

\* C19: a step changes the session id or the counter only if it dispatches a
\* POST to /ei/initialValues, and then to the values of the frame, or if it
\* is a get(), which adds one to the counter and leaves the session id; a
\* well-formed POST to /ei/initialValues sets both to the values of the
\* frame, on an established session and with its reply failing as well. No
\* other frame and no recv() that got nothing changes either.
C19_IdsModifiedOnlyBy ==
    [][/\ session_id' # session_id \/ tx_msg_id' # tx_msg_id =>
            \/ /\ InitialValuesStep
               /\ session_id' # session_id =>
                        session_id' = last'.frame.msg.sID
               /\ tx_msg_id' # tx_msg_id =>
                        tx_msg_id' = last'.frame.msg.data[1].edMsgID
            \/ /\ GetStep
               /\ session_id' = session_id
               /\ tx_msg_id' = tx_msg_id + 1
       /\ RecvStep /\ last'.frame.json
                /\ last'.frame.msg \in InitialValuesFrames =>
            /\ session_id' = last'.frame.msg.sID
            /\ tx_msg_id' = last'.frame.msg.data[1].edMsgID]_vars

\* the handshake frame of session 2 dispatched by the loop of reconnect()
\* over session 1, after get("/ci/services"), the send of its reply raising
C19_Witness ==
    /\ RecvDone /\ last.frame = Frame(InitialValues(2, 1))
    /\ last.send_raises /\ ret.kind = "None"
    /\ session_id = 2 /\ tx_msg_id = 1
    /\ epoch = [start |-> 1, ids |-> <<>>]
    /\ pc = "rc_loop"
    /\ Len(sent) = 3 /\ sent[2].sID = 1 /\ sent[2].resource = CiServices

-----------------------------------------------------------------------------
(* C20: transport faults during the handshake *)

\* C20: a run of reconnect() on an object as __init__ left it, whose first
\* recv() got end-of-stream, a receive error or a frame other than the
\* /ei/initialValues POST, does not raise to its caller.
C20_HandshakeFaultNotFatal ==
    run.fresh /\ ~run.iv_first /\ last.within = "reconnect" =>
        ret.kind # "raised"

====
